---- MODULE Spec2Model ----
(***************************************************************************)
(* Row mutation layer (addRowAtom, deleteRowAtom, updateFieldAtom) and the *)
(* table header Filters component of the spreadsheet editor.               *)
(*                                                                         *)
(* A row is [id, ooo, data]: id stands for _rowy_ref (the path is the      *)
(* table's collection followed by the id, so it is determined by the id),  *)
(* ooo is _rowy_outOfOrder === true, data maps the keys the row has to     *)
(* their values; a key outside DOMAIN data reads as undefined.             *)
(* The database functions are taken to be set and to resolve.              *)
(***************************************************************************)
EXTENDS Integers, Sequences, FiniteSets, TLC

\* Row ids are 0..MaxId
MaxId == 1
\* addRow and deleteRow take arrays of at most MaxRows elements
MaxRows == 2
\* a run makes at most MaxOps calls of the set functions
MaxOps == 2

Undef == "undefined"
Null == "null"
Ids == 0..MaxId
Empty == [k \in {} |-> Undef]

VARIABLES
  tableSettings,   \* tableSettingsAtom: audit, auditFieldCreatedBy, auditFieldUpdatedBy
  auditChange,     \* auditChangeAtom holds a function
  tableFiltersAtom,\* tableFiltersAtom: the filters of the table query
  rowsLocal,       \* tableRowsLocalAtom
  rowsDb,          \* the documents of the collection, as tableRowsDbAtom shows them
  op,              \* the last set-function call and its arguments
  preLocal,        \* tableRowsLocalAtom when that call started
  preRow,          \* the row that call found in tableRows (updateField)
  localCalls,      \* its dispatches to tableRowsLocalAtom
  dbCalls,         \* its calls of updateRowDb and deleteRowDb
  auditCalls,      \* its calls of auditChange
  nOps,            \* the number of calls made
  \* Filters component
  userClaims,      \* userClaims of the app context
  userFilters,     \* userDocData.tables?.[tableId]?.filters
  tableFilters,    \* tableSchemaDoc?.filters
  hasTableActions, \* tableActions is defined
  userQuery,       \* userFilterInputs.query
  tableQuery,      \* tableFilterInputs.query
  tab,
  overrideTableFilters,
  appliedFilters   \* the argument of the last tableActions.table.filter call

rowVars == <<tableSettings, auditChange, tableFiltersAtom, rowsLocal, rowsDb, op,
             preLocal, preRow, localCalls, dbCalls, auditCalls, nOps>>
filterVars == <<userClaims, userFilters, tableFilters, hasTableActions, userQuery,
                tableQuery, tab, overrideTableFilters, appliedFilters>>
vars == <<rowVars, filterVars>>

----------------------------------------------------------------------------
\* Table schema and the current user

\* tableColumnsOrderedAtom: "a" and "b" are required, "b" has a static default value
\* and "c" a null default value
tableColumnsOrdered ==
  << [key |-> "a", required |-> TRUE, defaultType |-> Undef, defaultValue |-> Undef],
     [key |-> "b", required |-> TRUE, defaultType |-> "static", defaultValue |-> "d"],
     [key |-> "c", required |-> FALSE, defaultType |-> "null", defaultValue |-> Undef] >>

\* rowyUser(currentUser)
rowyUser == "me"

Merge(base, over) ==
  [k \in (DOMAIN base) \cup (DOMAIN over) |-> IF k \in DOMAIN over THEN over[k] ELSE base[k]]

Without(data, keys) == [k \in (DOMAIN data) \ keys |-> data[k]]

One(k, v) == [x \in {k} |-> v]

\* [filter.value] of an array-contains filter
ArrayOf(v) == "[" \o v \o "]"

\* lodash get of a top-level field
Get(data, k) == IF k \in DOMAIN data THEN data[k] ELSE Undef

AuditFieldCreatedBy ==
  IF tableSettings.auditFieldCreatedBy = Undef THEN "_createdBy"
  ELSE tableSettings.auditFieldCreatedBy

AuditFieldUpdatedBy ==
  IF tableSettings.auditFieldUpdatedBy = Undef THEN "_updatedBy"
  ELSE tableSettings.auditFieldUpdatedBy

----------------------------------------------------------------------------
\* Stores

\* tableRowsLocalAtom reducer
LocalAdd(local, row) == <<row>> \o local

LocalDelete(local, id) == SelectSeq(local, LAMBDA r : r.id # id)

RECURSIVE FindIndex(_, _, _)
FindIndex(rows, id, i) ==
  IF i > Len(rows) THEN 0
  ELSE IF rows[i].id = id THEN i ELSE FindIndex(rows, id, i + 1)

LocalUpdate(local, id, update, deleteFields) ==
  LET i == FindIndex(local, id, 1) IN
  IF i = 0 THEN <<[id |-> id, ooo |-> FALSE, data |-> update]>> \o local
  ELSE [local EXCEPT ![i].data = Merge(Without(@, deleteFields), update)]

IsLocalRow(local, id) == FindIndex(local, id, 1) # 0

\* omitRowyFields: a row's data without its _rowy_ fields (kept outside data here)
omitRowyFields(data) == data

\* the database client's write: merge into the document, then delete deleteFields
UpdateRowDb(db, id, data, deleteFields) ==
  LET old == IF \E r \in db : r.id = id THEN (CHOOSE r \in db : r.id = id).data ELSE Empty
  IN {r \in db : r.id # id} \cup {[id |-> id, data |-> Without(Merge(old, data), deleteFields)]}

DeleteRowDb(db, id) == {r \in db : r.id # id}

\* tableRowsAtom: find the row of a path in rowsLocal, then in rowsDb
InTableRows(local, db, id) == IsLocalRow(local, id) \/ \E r \in db : r.id = id

FindTableRow(local, db, id) ==
  IF IsLocalRow(local, id) THEN local[FindIndex(local, id, 1)]
  ELSE LET r == CHOOSE r \in db : r.id = id IN [id |-> r.id, ooo |-> FALSE, data |-> r.data]

\* decrementId's default argument: an id after every id of the table
DefaultId == MaxId + 1

\* tableRowsDb[0]?._rowy_ref.id as decrementId receives it
FirstDbId(db) ==
  IF db = {} THEN DefaultId ELSE CHOOSE i \in {r.id : r \in db} : \A r \in db : i <= r.id

\* decrementId: the id that sorts just before
decrementId(id) == id - 1

----------------------------------------------------------------------------
\* addRowAtom

RECURSIVE FilterValues(_, _)
FilterValues(filters, acc) ==
  IF filters = <<>> THEN acc
  ELSE LET f == Head(filters) IN
       FilterValues(Tail(filters),
         IF f.operator = "==" THEN Merge(acc, One(f.key, f.value))
         ELSE IF f.operator = "array-contains" THEN Merge(acc, One(f.key, ArrayOf(f.value)))
         ELSE acc)

\* the filter keys no initial value could be set for
OutOfOrderFilters ==
  {tableFiltersAtom[i].key : i \in DOMAIN tableFiltersAtom}
    \ {tableFiltersAtom[i].key : i \in {j \in DOMAIN tableFiltersAtom :
          tableFiltersAtom[j].operator \in {"==", "array-contains"}}}

RECURSIVE DefaultValues(_, _)
DefaultValues(columns, acc) ==
  IF columns = <<>> THEN acc
  ELSE LET c == Head(columns) IN
       DefaultValues(Tail(columns),
         IF c.defaultType = "static" THEN Merge(acc, One(c.key, c.defaultValue))
         ELSE IF c.defaultType = "null" THEN Merge(acc, One(c.key, Null))
         ELSE acc)

AddAuditValues(initialValues) ==
  IF tableSettings.audit # "false"
  THEN Merge(Merge(initialValues, One(AuditFieldCreatedBy, rowyUser)),
             One(AuditFieldUpdatedBy, rowyUser))
  ELSE initialValues

InitialValues ==
  AddAuditValues(DefaultValues(tableColumnsOrdered, FilterValues(tableFiltersAtom, Empty)))

RequiredFields(ignoreRequiredFields) ==
  IF ignoreRequiredFields THEN <<>>
  ELSE LET req == SelectSeq(tableColumnsOrdered, LAMBDA c : c.required)
       IN [i \in DOMAIN req |-> req[i].key]

MissingRequiredFields(data, ignoreRequiredFields) ==
  IF ignoreRequiredFields THEN <<>>
  ELSE SelectSeq(RequiredFields(ignoreRequiredFields), LAMBDA f : Get(data, f) = Undef)

\* { ...initialValues, ...row }
RowValues(row) == Merge(InitialValues, row.data)

\* a mutation: the required fields are looked up in the combined values
RowValuesMissingRequiredFields(row, ignoreRequiredFields) ==
  MissingRequiredFields(RowValues(row), ignoreRequiredFields)

\* missingRequiredFields of addRow: read from the row as given
RowMissingRequiredFields(row, ignoreRequiredFields) ==
  MissingRequiredFields(row.data, ignoreRequiredFields)

OutOfOrder(row, setId) ==
  row.ooo \/ OutOfOrderFilters # {} \/ setId # "decrement"

\* _addSingleRowAndAudit on the stores and call logs st
AddSingleRowAndAudit(st, row, ignoreRequiredFields, setId) ==
  LET missing == RowMissingRequiredFields(row, ignoreRequiredFields)
      rowValues == RowValues(row)
      toLocal == Len(missing) > 0 \/ OutOfOrder(row, setId)
      localRow == [id |-> row.id, ooo |-> OutOfOrder(row, setId), data |-> rowValues]
      toDb == Len(missing) = 0
  IN [local |-> IF toLocal THEN LocalAdd(st.local, localRow) ELSE st.local,
      db |-> IF toDb THEN UpdateRowDb(st.db, row.id, omitRowyFields(rowValues), {})
             ELSE st.db,
      localCalls |-> IF toLocal
                     THEN Append(st.localCalls, [type |-> "add", row |-> localRow])
                     ELSE st.localCalls,
      dbCalls |-> IF toDb
                  THEN Append(st.dbCalls, [fn |-> "updateRowDb", path |-> row.id,
                                           data |-> omitRowyFields(rowValues),
                                           deleteFields |-> {}])
                  ELSE st.dbCalls,
      auditCalls |-> IF auditChange
                     THEN Append(st.auditCalls, [type |-> "ADD_ROW", path |-> row.id])
                     ELSE st.auditCalls]

RECURSIVE AddRows(_, _, _, _)
AddRows(st, rows, ignoreRequiredFields, setId) ==
  IF rows = <<>> THEN st
  ELSE AddRows(AddSingleRowAndAudit(st, Head(rows), ignoreRequiredFields, setId),
               Tail(rows), ignoreRequiredFields, setId)

\* the ids addRow gives the rows: the generateId() results for random, each the
\* decrement of the one before, starting from the first row of rowsDb, for decrement
RECURSIVE DecrementIds(_, _)
DecrementIds(n, lastId) ==
  IF n = 0 THEN <<>> ELSE <<decrementId(lastId)>> \o DecrementIds(n - 1, decrementId(lastId))

SetIds(rows, setId, random) ==
  IF setId = "random" THEN [i \in DOMAIN rows |-> [rows[i] EXCEPT !.id = random[i]]]
  ELSE IF setId = "decrement"
  THEN LET ids == DecrementIds(Len(rows), FirstDbId(rowsDb))
       IN [i \in DOMAIN rows |-> [rows[i] EXCEPT !.id = ids[i]]]
  ELSE rows

StartLogs == [local |-> rowsLocal, db |-> rowsDb, localCalls |-> <<>>,
              dbCalls |-> <<>>, auditCalls |-> <<>>]

Commit(st) ==
  /\ rowsLocal' = st.local
  /\ rowsDb' = st.db
  /\ localCalls' = st.localCalls
  /\ dbCalls' = st.dbCalls
  /\ auditCalls' = st.auditCalls
  /\ preLocal' = rowsLocal
  /\ nOps' = nOps + 1

\* the rows callers hand to addRow: an empty row, a row that leaves the required
\* field with a default value out, a row with every required field, and an
\* out-of-order copy of a row another user created
InputRows ==
  {[ooo |-> FALSE, data |-> Empty],
   [ooo |-> FALSE, data |-> One("a", "x")],
   [ooo |-> FALSE, data |-> Merge(One("a", "x"), One("b", "y"))],
   [ooo |-> TRUE,
    data |-> Merge(Merge(One("a", "y"), One("b", "y")), One("_createdBy", "other"))]}

InputArrays == UNION {[1..n -> InputRows] : n \in 0..MaxRows}

WithIds(rows, ids) ==
  [i \in DOMAIN rows |-> [id |-> ids[i], ooo |-> rows[i].ooo, data |-> rows[i].data]]

\* addRow({ row, ignoreRequiredFields, setId }): row is rows when isArray and rows[1]
\* otherwise; ids are the rows' own ids and random the ids generateId() returns
AddRow(isArray, rows, ids, ignoreRequiredFields, setId, random) ==
  LET given == SetIds(WithIds(rows, ids), setId, random)
      st == AddRows(StartLogs, given, ignoreRequiredFields, setId)
  IN /\ isArray \/ Len(rows) = 1
     /\ \A i \in DOMAIN given : given[i].id \in Ids
     /\ Commit(st)
     /\ op' = [name |-> "addRow", isArray |-> isArray, rows |-> given,
               ignoreRequiredFields |-> ignoreRequiredFields, setId |-> setId]
     /\ preRow' = Undef
     /\ UNCHANGED <<tableSettings, auditChange, tableFiltersAtom, filterVars>>

\* ids serves as the rows' own ids and as the ids generateId() returns: a call reads
\* one or the other, and neither when setId is "decrement"
AddRowStep ==
  /\ nOps < MaxOps
  /\ \E isArray \in BOOLEAN, rows \in InputArrays, ignoreRequiredFields \in BOOLEAN,
        setId \in {Undef, "random", "decrement"} :
       \E ids \in [DOMAIN rows -> Ids] :
         /\ setId = "decrement" => ids = [i \in DOMAIN rows |-> 0]
         /\ AddRow(isArray, rows, ids, ignoreRequiredFields, setId, ids)

----------------------------------------------------------------------------
\* deleteRowAtom

\* a mutation: every path is deleted from the database as well
DeleteSingleRowEverywhere(st, tableRowsLocal, path) ==
  [local |-> LocalDelete(st.local, path),
   db |-> DeleteRowDb(st.db, path),
   localCalls |-> Append(st.localCalls, [type |-> "delete", path |-> path]),
   dbCalls |-> Append(st.dbCalls, [fn |-> "deleteRowDb", path |-> path]),
   auditCalls |-> IF auditChange
                  THEN Append(st.auditCalls, [type |-> "DELETE_ROW", path |-> path])
                  ELSE st.auditCalls]

\* _deleteSingleRowAndAudit: isLocalRow is read from the tableRowsLocal the call got
DeleteSingleRowAndAudit(st, tableRowsLocal, path) ==
  LET isLocalRow == IsLocalRow(tableRowsLocal, path)
  IN [local |-> IF isLocalRow THEN LocalDelete(st.local, path) ELSE st.local,
      db |-> IF isLocalRow THEN st.db ELSE DeleteRowDb(st.db, path),
      localCalls |-> IF isLocalRow
                     THEN Append(st.localCalls, [type |-> "delete", path |-> path])
                     ELSE st.localCalls,
      dbCalls |-> IF isLocalRow THEN st.dbCalls
                  ELSE Append(st.dbCalls, [fn |-> "deleteRowDb", path |-> path]),
      auditCalls |-> IF auditChange
                     THEN Append(st.auditCalls, [type |-> "DELETE_ROW", path |-> path])
                     ELSE st.auditCalls]

RECURSIVE DeleteRows(_, _, _)
DeleteRows(st, tableRowsLocal, paths) ==
  IF paths = <<>> THEN st
  ELSE DeleteRows(DeleteSingleRowAndAudit(st, tableRowsLocal, Head(paths)),
                  tableRowsLocal, Tail(paths))

InputPaths == UNION {[1..n -> Ids] : n \in 0..MaxRows}

\* deleteRow(path): path is paths when isArray and paths[1] otherwise
DeleteRow(isArray, paths) ==
  /\ isArray \/ Len(paths) = 1
  /\ Commit(DeleteRows(StartLogs, rowsLocal, paths))
  /\ op' = [name |-> "deleteRow", isArray |-> isArray, paths |-> paths]
  /\ preRow' = Undef
  /\ UNCHANGED <<tableSettings, auditChange, tableFiltersAtom, filterVars>>

DeleteRowStep ==
  /\ nOps < MaxOps
  /\ \E isArray \in BOOLEAN, paths \in InputPaths : DeleteRow(isArray, paths)

----------------------------------------------------------------------------
\* updateFieldAtom

\* the update written by the call: the audit field, then the field itself
AuditUpdate ==
  IF tableSettings.audit # "false" THEN One(AuditFieldUpdatedBy, rowyUser) ELSE Empty

FieldUpdate(fieldName, value, deleteField) ==
  IF deleteField THEN AuditUpdate ELSE Merge(AuditUpdate, One(fieldName, value))

\* a mutation: the equality check whatever disableCheckEquality
AlwaysChecksEquality(row, fieldName, value, deleteField, disableCheckEquality) ==
  ~deleteField /\ Get(row.data, fieldName) = value

\* the equality check that skips the update
SkipsUpdate(row, fieldName, value, deleteField, disableCheckEquality) ==
  ~deleteField /\ ~disableCheckEquality /\ Get(row.data, fieldName) = value

\* missingRequiredFields of updateField: read from the row as found
UpdateMissingRequiredFields(row, ignoreRequiredFields) ==
  MissingRequiredFields(row.data, ignoreRequiredFields)

\* updateRowData(cloneDeep(row), update), then unset(rowValues, fieldName)
UpdatedRowValues(row, update, deleteFields) == Without(Merge(row.data, update), deleteFields)

UpdateFieldEffects(st, row, isLocalRow, fieldName, value, deleteField, ignoreRequiredFields) ==
  LET update == FieldUpdate(fieldName, value, deleteField)
      deleteFields == IF deleteField THEN {fieldName} ELSE {}
      missing == UpdateMissingRequiredFields(row, ignoreRequiredFields)
      toDb == ~isLocalRow \/ Len(missing) = 0
      data == IF isLocalRow THEN omitRowyFields(UpdatedRowValues(row, update, deleteFields))
              ELSE omitRowyFields(update)
  IN [local |-> IF isLocalRow THEN LocalUpdate(st.local, row.id, update, deleteFields)
                ELSE st.local,
      db |-> IF toDb THEN UpdateRowDb(st.db, row.id, data, deleteFields) ELSE st.db,
      localCalls |-> IF isLocalRow
                     THEN Append(st.localCalls, [type |-> "update", path |-> row.id,
                                                 row |-> update,
                                                 deleteFields |-> deleteFields])
                     ELSE st.localCalls,
      dbCalls |-> IF toDb
                  THEN Append(st.dbCalls, [fn |-> "updateRowDb", path |-> row.id,
                                           data |-> data, deleteFields |-> deleteFields])
                  ELSE st.dbCalls,
      auditCalls |-> IF auditChange
                     THEN Append(st.auditCalls, [type |-> "UPDATE_CELL", path |-> row.id,
                                                 updatedField |-> fieldName])
                     ELSE st.auditCalls]

FieldNames == {"a", "b"}
FieldValues == {"x", "y"}

UpdateField(path, fieldName, value, deleteField, ignoreRequiredFields, disableCheckEquality) ==
  /\ InTableRows(rowsLocal, rowsDb, path)
  /\ LET row == FindTableRow(rowsLocal, rowsDb, path)
         isLocalRow == IsLocalRow(rowsLocal, path)
     IN /\ Commit(IF SkipsUpdate(row, fieldName, value, deleteField, disableCheckEquality)
                  THEN StartLogs
                  ELSE UpdateFieldEffects(StartLogs, row, isLocalRow, fieldName, value,
                                          deleteField, ignoreRequiredFields))
        /\ preRow' = row
  /\ op' = [name |-> "updateField", path |-> path, fieldName |-> fieldName,
            value |-> value, deleteField |-> deleteField,
            ignoreRequiredFields |-> ignoreRequiredFields,
            disableCheckEquality |-> disableCheckEquality]
  /\ UNCHANGED <<tableSettings, auditChange, tableFiltersAtom, filterVars>>

UpdateFieldStep ==
  /\ nOps < MaxOps
  /\ \E path \in Ids, fieldName \in FieldNames, value \in FieldValues,
     deleteField \in BOOLEAN, ignoreRequiredFields \in BOOLEAN,
     disableCheckEquality \in BOOLEAN :
    UpdateField(path, fieldName, value, deleteField, ignoreRequiredFields,
                disableCheckEquality)

----------------------------------------------------------------------------
\* Filters component

\* useFilterInputs: the query of a filter input
INITIAL_QUERY == [key |-> "", operator |-> "", value |-> ""]

Queries ==
  {INITIAL_QUERY,
   [key |-> "a", operator |-> "==", value |-> "x"],
   [key |-> "b", operator |-> "==", value |-> "y"],
   [key |-> "b", operator |-> "==", value |-> ""]}

\* a filters field of a config document: undefined, null or an array
NoFilters == [kind |-> "undefined", list |-> <<>>]
NullFilters == [kind |-> "null", list |-> <<>>]
ArrayFilters(list) == [kind |-> "array", list |-> list]

shouldDisableApplyButton(value) == value = ""

\* the filters a user can have saved, and the filters a table can have
SavedFilters ==
  {NoFilters, NullFilters, ArrayFilters(<<>>)}
    \cup {ArrayFilters(<<q>>) : q \in {r \in Queries : ~shouldDisableApplyButton(r.value)}}

SchemaFilters == SavedFilters \ {NullFilters}

\* userClaims: undefined, or the roles of the user
UserClaims ==
  {[defined |-> FALSE, roles |-> {}], [defined |-> TRUE, roles |-> {"EDITOR"}],
   [defined |-> TRUE, roles |-> {"ADMIN"}]}

IsAdmin == userClaims.defined /\ "ADMIN" \in userClaims.roles

HasFilters(filters) == filters.kind = "array" /\ Len(filters.list) > 0

hasTableFilters == HasFilters(tableFilters)

hasUserFilters == HasFilters(userFilters)

tableFiltersOverridden ==
  IsAdmin /\ (hasUserFilters \/ userFilters.kind = "null") /\ hasTableFilters

\* a mutation: the user's filters override the table filters for every user
AnyUserOverrides(admin, user, table) ==
  IF HasFilters(user) \/ user.kind = "null" THEN user.list
  ELSE IF HasFilters(table) THEN table.list
  ELSE <<>>

\* a mutation: null is not taken as an override
NullDoesNotOverride(admin, user, table) ==
  IF admin /\ HasFilters(user) THEN user.list
  ELSE IF HasFilters(table) THEN table.list
  ELSE IF HasFilters(user) THEN user.list
  ELSE <<>>

\* filtersToApply of the effect, for the given documents and claims
FiltersToApply(admin, user, table) ==
  IF admin /\ (HasFilters(user) \/ user.kind = "null") THEN user.list
  ELSE IF HasFilters(table) THEN table.list
  ELSE IF HasFilters(user) THEN user.list
  ELSE <<>>

FirstQuery(filters) == IF HasFilters(filters) THEN filters.list[1] ELSE INITIAL_QUERY

\* the effect run after the documents or the claims changed to admin, user, table
Effect(admin, user, table) ==
  /\ tableQuery' = FirstQuery(table)
  /\ userQuery' = FirstQuery(user)
  /\ appliedFilters' =
       IF hasTableActions
       THEN [called |-> TRUE, filters |-> FiltersToApply(admin, user, table)]
       ELSE appliedFilters

\* the component mounted: the state hooks' initial values and the first effect
FiltersMounted ==
  /\ tab = IF hasTableFilters /\ ~tableFiltersOverridden THEN "table" ELSE "user"
  /\ overrideTableFilters = tableFiltersOverridden
  /\ tableQuery = FirstQuery(tableFilters)
  /\ userQuery = FirstQuery(userFilters)
  /\ appliedFilters =
       IF hasTableActions
       THEN [called |-> TRUE, filters |-> FiltersToApply(IsAdmin, userFilters, tableFilters)]
       ELSE [called |-> FALSE, filters |-> <<>>]

FiltersInit ==
  /\ userClaims \in UserClaims
  /\ userFilters \in SavedFilters
  /\ tableFilters \in SchemaFilters
  /\ hasTableActions \in BOOLEAN
  /\ FiltersMounted

\* setUserFilters: the user document changes and the effect runs
setUserFilters(filters) ==
  /\ userFilters' = filters
  /\ Effect(IsAdmin, filters, tableFilters)
  /\ UNCHANGED <<userClaims, tableFilters, hasTableActions>>

\* setTableFilters: tableActions?.table.updateConfig changes the schema document and
\* the effect runs
setTableFilters(filters) ==
  /\ hasTableActions
  /\ tableFilters' = filters
  /\ Effect(IsAdmin, userFilters, filters)
  /\ UNCHANGED <<userClaims, userFilters, hasTableActions>>

SetTab(v) ==
  /\ IsAdmin
  /\ tab' = v
  /\ UNCHANGED <<userClaims, userFilters, tableFilters, hasTableActions, userQuery,
                 tableQuery, overrideTableFilters, appliedFilters, rowVars>>

SetOverrideTableFilters(checked) ==
  /\ IsAdmin
  /\ tab = "user"
  /\ overrideTableFilters' = checked
  /\ UNCHANGED <<userClaims, userFilters, tableFilters, hasTableActions, userQuery,
                 tableQuery, tab, appliedFilters, rowVars>>

\* FilterInputs of the user filter: shown to an ADMIN on the user tab and to other
\* users when there are no table filters
EditUserQuery(q) ==
  /\ (IsAdmin /\ tab = "user") \/ (~IsAdmin /\ ~hasTableFilters)
  /\ userQuery' = q
  /\ UNCHANGED <<userClaims, userFilters, tableFilters, hasTableActions, tableQuery, tab,
                 overrideTableFilters, appliedFilters, rowVars>>

EditTableQuery(q) ==
  /\ IsAdmin
  /\ tab = "table"
  /\ tableQuery' = q
  /\ UNCHANGED <<userClaims, userFilters, tableFilters, hasTableActions, userQuery, tab,
                 overrideTableFilters, appliedFilters, rowVars>>

AdminClearUserFilters ==
  /\ IsAdmin
  /\ tab = "user"
  /\ ~(~overrideTableFilters /\ ~tableFiltersOverridden /\ userQuery.key = "")
  /\ setUserFilters(IF overrideTableFilters THEN NullFilters ELSE ArrayFilters(<<>>))
  /\ UNCHANGED <<tab, overrideTableFilters, rowVars>>

AdminApplyUserFilters ==
  /\ IsAdmin
  /\ tab = "user"
  /\ ~((~overrideTableFilters /\ hasTableFilters) \/ shouldDisableApplyButton(userQuery.value))
  /\ setUserFilters(ArrayFilters(<<userQuery>>))
  /\ UNCHANGED <<tab, overrideTableFilters, rowVars>>

\* without tableActions nothing is saved: Clear only resets the query
ClearTableFilters ==
  /\ IsAdmin
  /\ tab = "table"
  /\ tableQuery.key # ""
  /\ \/ setTableFilters(ArrayFilters(<<>>))
     \/ /\ ~hasTableActions
        /\ tableQuery' = INITIAL_QUERY
        /\ UNCHANGED <<userClaims, userFilters, tableFilters, hasTableActions, userQuery,
                       appliedFilters>>
  /\ UNCHANGED <<tab, overrideTableFilters, rowVars>>

ApplyTableFilters ==
  /\ IsAdmin
  /\ tab = "table"
  /\ ~shouldDisableApplyButton(tableQuery.value)
  /\ \/ setTableFilters(ArrayFilters(<<tableQuery>>))
     \/ /\ ~hasTableActions
        /\ UNCHANGED <<userClaims, userFilters, tableFilters, hasTableActions, userQuery,
                       tableQuery, appliedFilters>>
  /\ UNCHANGED <<tab, overrideTableFilters, rowVars>>

ClearUserFilters ==
  /\ ~IsAdmin
  /\ ~hasTableFilters
  /\ userQuery.key # ""
  /\ setUserFilters(ArrayFilters(<<>>))
  /\ UNCHANGED <<tab, overrideTableFilters, rowVars>>

ApplyUserFilters ==
  /\ ~IsAdmin
  /\ ~hasTableFilters
  /\ ~shouldDisableApplyButton(userQuery.value)
  /\ setUserFilters(ArrayFilters(<<userQuery>>))
  /\ UNCHANGED <<tab, overrideTableFilters, rowVars>>

\* the user's claims change
ClaimsChange(claims) ==
  /\ claims # userClaims
  /\ userClaims' = claims
  /\ Effect(claims.defined /\ "ADMIN" \in claims.roles, userFilters, tableFilters)
  /\ UNCHANGED <<userFilters, tableFilters, hasTableActions, tab, overrideTableFilters,
                 rowVars>>

\* the table schema document changes: another ADMIN saved the table filters
SchemaChange(filters) ==
  /\ filters # tableFilters
  /\ tableFilters' = filters
  /\ Effect(IsAdmin, userFilters, filters)
  /\ UNCHANGED <<userClaims, userFilters, hasTableActions, tab, overrideTableFilters,
                 rowVars>>

FiltersNext ==
  \/ \E v \in {"user", "table"} : SetTab(v)
  \/ \E checked \in BOOLEAN : SetOverrideTableFilters(checked)
  \/ \E q \in Queries : EditUserQuery(q)
  \/ \E q \in Queries : EditTableQuery(q)
  \/ AdminClearUserFilters
  \/ AdminApplyUserFilters
  \/ ClearTableFilters
  \/ ApplyTableFilters
  \/ ClearUserFilters
  \/ ApplyUserFilters
  \/ \E claims \in UserClaims : ClaimsChange(claims)
  \/ \E filters \in SchemaFilters : SchemaChange(filters)

----------------------------------------------------------------------------
\* The row mutation layer

AuditDefault == [audit |-> Undef, auditFieldCreatedBy |-> Undef, auditFieldUpdatedBy |-> Undef]
AuditNamed ==
  [audit |-> "true", auditFieldCreatedBy |-> "createdBy", auditFieldUpdatedBy |-> "updatedBy"]
AuditOff == [audit |-> "false", auditFieldCreatedBy |-> Undef, auditFieldUpdatedBy |-> Undef]

FilterOn(operator) == <<[key |-> "b", operator |-> operator, value |-> "x"]>>

\* the tables the calls run on: their settings, whether auditing is available, and
\* the filters of the table query
Tables ==
  {[settings |-> AuditDefault, auditChange |-> TRUE, filters |-> <<>>],
   [settings |-> AuditDefault, auditChange |-> FALSE, filters |-> FilterOn("==")],
   [settings |-> AuditNamed, auditChange |-> TRUE, filters |-> FilterOn("array-contains")],
   [settings |-> AuditNamed, auditChange |-> FALSE, filters |-> FilterOn(">")],
   [settings |-> AuditOff, auditChange |-> TRUE, filters |-> FilterOn(">")],
   [settings |-> AuditOff, auditChange |-> FALSE, filters |-> <<>>]}

RowsInit ==
  /\ \E t \in Tables :
       /\ tableSettings = t.settings
       /\ auditChange = t.auditChange
       /\ tableFiltersAtom = t.filters
  /\ rowsLocal = <<>>
  /\ rowsDb = {}
  /\ op = [name |-> "none"]
  /\ preLocal = <<>>
  /\ preRow = Undef
  /\ localCalls = <<>>
  /\ dbCalls = <<>>
  /\ auditCalls = <<>>
  /\ nOps = 0

RowsNext == AddRowStep \/ DeleteRowStep \/ UpdateFieldStep

\* the Filters component of a user with no claims and no saved filters
FiltersIdle ==
  /\ userClaims = [defined |-> FALSE, roles |-> {}]
  /\ userFilters = NoFilters
  /\ tableFilters = NoFilters
  /\ hasTableActions = TRUE
  /\ FiltersMounted

\* a table with no rows and no call made
RowsIdle ==
  /\ tableSettings = AuditDefault
  /\ auditChange = TRUE
  /\ tableFiltersAtom = <<>>
  /\ rowsLocal = <<>>
  /\ rowsDb = {}
  /\ op = [name |-> "none"]
  /\ preLocal = <<>>
  /\ preRow = Undef
  /\ localCalls = <<>>
  /\ dbCalls = <<>>
  /\ auditCalls = <<>>
  /\ nOps = 0

Init == RowsInit /\ FiltersIdle

\* the row mutation layer
Spec == Init /\ [][RowsNext]_vars

\* the Filters component
InitFilters == FiltersInit /\ RowsIdle

SpecFilters == InitFilters /\ [][FiltersNext]_vars

----------------------------------------------------------------------------
\* Properties of the row mutation layer

RequiredKeys ==
  {tableColumnsOrdered[i].key :
     i \in {j \in DOMAIN tableColumnsOrdered : tableColumnsOrdered[j].required}}

HasAllRequired(data) == RequiredKeys \subseteq DOMAIN data

Includes(data, part) == \A k \in DOMAIN part : k \in DOMAIN data /\ data[k] = part[k]

WritesTo(p) == {i \in DOMAIN dbCalls : dbCalls[i].fn = "updateRowDb" /\ dbCalls[i].path = p}

DeletesOf(p) == {i \in DOMAIN dbCalls : dbCalls[i].fn = "deleteRowDb" /\ dbCalls[i].path = p}

AuditEvents(type, p) ==
  {i \in DOMAIN auditCalls : auditCalls[i].type = type /\ auditCalls[i].path = p}

WasLocal(p) == \E j \in DOMAIN preLocal : preLocal[j].id = p

\* C1: addRow writes a row to the database (one updateRowDb call for its path) if and
\* only if ignoreRequiredFields is set or the row has a value for every required
\* column; a row that misses a required field (the check not being ignored) is added
\* to rowsLocal with the values it was given, and no write is issued for it.
\* Rows of one call that share a path are counted: the path gets as many writes as
\* rows of the call qualify.
C1_AddRowWritesIffComplete ==
  op.name = "addRow" =>
    \A p \in Ids :
      LET mine == {i \in DOMAIN op.rows : op.rows[i].id = p}
          complete == {i \in mine : op.ignoreRequiredFields \/ HasAllRequired(op.rows[i].data)}
      IN /\ Cardinality(WritesTo(p)) = Cardinality(complete)
         /\ \A i \in mine \ complete :
              /\ \E j \in DOMAIN rowsLocal :
                   rowsLocal[j].id = p /\ Includes(rowsLocal[j].data, op.rows[i].data)
              /\ \E j \in DOMAIN localCalls :
                   /\ localCalls[j].type = "add"
                   /\ localCalls[j].row.id = p
                   /\ Includes(localCalls[j].row.data, op.rows[i].data)

\* an array of two rows, one written to the database and one kept in rowsLocal only
C1_Witness ==
  /\ op.name = "addRow"
  /\ ~op.ignoreRequiredFields
  /\ Len(op.rows) = 2
  /\ HasAllRequired(op.rows[1].data)
  /\ ~HasAllRequired(op.rows[2].data)
  /\ op.rows[1].id # op.rows[2].id
  /\ Cardinality(WritesTo(op.rows[1].id)) = 1
  /\ WritesTo(op.rows[2].id) = {}
  /\ \E j \in DOMAIN rowsLocal : rowsLocal[j].id = op.rows[2].id

\* the row of path p that rowsLocal shows
LocalRowOf(p) == rowsLocal[FindIndex(rowsLocal, p, 1)]

\* C2: updateField on a row held in rowsLocal applies the update to rowsLocal, and
\* writes the entire row to the database if and only if the row has no missing
\* required field once the update is applied. (Calls that ignore the required
\* fields, and calls the equality check skips, are left out.)
C2_UpdateWritesOnceComplete ==
  (/\ op.name = "updateField"
   /\ WasLocal(op.path)
   /\ ~op.ignoreRequiredFields
   /\ (op.deleteField \/ op.disableCheckEquality \/ Get(preRow.data, op.fieldName) # op.value))
  =>
    /\ IsLocalRow(rowsLocal, op.path)
    /\ Get(LocalRowOf(op.path).data, op.fieldName) = IF op.deleteField THEN Undef ELSE op.value
    /\ (WritesTo(op.path) # {}) <=> HasAllRequired(LocalRowOf(op.path).data)
    /\ \A i \in WritesTo(op.path) : dbCalls[i].data = LocalRowOf(op.path).data

\* C3: updateField with deleteField and disableCheckEquality unset and a value equal
\* to the row's current value of fieldName changes nothing: rowsLocal is unchanged,
\* no database write is issued and no audit event is emitted. With
\* disableCheckEquality or deleteField set the update is performed whatever the
\* values: rowsLocal is updated for a local row, the database is written for any
\* other row, and UPDATE_CELL is emitted when auditing is available.
C3_EqualValueIsNoOp ==
  op.name = "updateField" =>
    /\ (~op.deleteField /\ ~op.disableCheckEquality
          /\ Get(preRow.data, op.fieldName) = op.value)
       => /\ rowsLocal = preLocal
          /\ localCalls = <<>>
          /\ dbCalls = <<>>
          /\ auditCalls = <<>>
    /\ (op.deleteField \/ op.disableCheckEquality)
       => /\ WasLocal(op.path) =>
               /\ Len(localCalls) = 1
               /\ localCalls[1].type = "update"
               /\ localCalls[1].path = op.path
               /\ op.deleteField => op.fieldName \notin DOMAIN LocalRowOf(op.path).data
               /\ ~op.deleteField => Get(LocalRowOf(op.path).data, op.fieldName) = op.value
          /\ ~WasLocal(op.path) => Cardinality(WritesTo(op.path)) = 1
          /\ Cardinality(AuditEvents("UPDATE_CELL", op.path)) = IF auditChange THEN 1 ELSE 0

\* an update of a field to the value it has, skipped
C3_Witness ==
  /\ op.name = "updateField"
  /\ ~op.deleteField
  /\ ~op.disableCheckEquality
  /\ Get(preRow.data, op.fieldName) = op.value
  /\ auditChange
  /\ auditCalls = <<>>
  /\ dbCalls = <<>>

\* the number of times deleteRow was given path p
Given(p) == Cardinality({i \in DOMAIN op.paths : op.paths[i] = p})

\* C4: deleteRow, for every path it is given: a path of a row in rowsLocal has its
\* rows removed from rowsLocal and the database delete function is not called for
\* it; for any other path the database delete function is called once (once each
\* time the path is given) and rowsLocal keeps all its other rows. One DELETE_ROW
\* audit event is emitted each time a path is given when auditing is available.
C4_DeleteRowLocalOrDb ==
  op.name = "deleteRow" =>
    /\ \A p \in Ids :
         /\ (Given(p) > 0 /\ WasLocal(p)) =>
              /\ ~IsLocalRow(rowsLocal, p)
              /\ DeletesOf(p) = {}
         /\ (Given(p) > 0 /\ ~WasLocal(p)) => Cardinality(DeletesOf(p)) = Given(p)
         /\ Given(p) = 0 => DeletesOf(p) = {}
         /\ Cardinality(AuditEvents("DELETE_ROW", p)) = IF auditChange THEN Given(p) ELSE 0
    /\ rowsLocal = SelectSeq(preLocal, LAMBDA r : Given(r.id) = 0)
    /\ \A p \in Ids : WritesTo(p) = {}

\* an array of a local row's path and of a path that is not in rowsLocal
C4_Witness ==
  /\ op.name = "deleteRow"
  /\ auditChange
  /\ Len(op.paths) = 2
  /\ WasLocal(op.paths[1])
  /\ ~WasLocal(op.paths[2])
  /\ ~IsLocalRow(rowsLocal, op.paths[1])
  /\ DeletesOf(op.paths[1]) = {}
  /\ Cardinality(DeletesOf(op.paths[2])) = 1
  /\ Len(auditCalls) = 2

\* the rows addRow wrote: the rows it added to rowsLocal and the data it wrote
AddedData ==
  {localCalls[i].row.data : i \in DOMAIN localCalls} \cup {dbCalls[i].data : i \in DOMAIN dbCalls}

----------------------------------------------------------------------------
\* Properties of the Filters component

\* C5: a user whose roles do not include ADMIN cannot override the table filters:
\* whenever the table has a non-empty filters list the filters applied are the table
\* filters, whatever the user's saved filters; the user's own filters are applied
\* only when there are no table filters.
C5_NonAdminGetsTableFilters ==
  (hasTableActions /\ ~IsAdmin) =>
    /\ appliedFilters.called
    /\ hasTableFilters => appliedFilters.filters = tableFilters.list
    /\ ~hasTableFilters =>
         appliedFilters.filters = IF hasUserFilters THEN userFilters.list ELSE <<>>

\* a user without ADMIN whose saved filters differ from the table filters applied
C5_Witness ==
  /\ hasTableActions
  /\ ~IsAdmin
  /\ hasTableFilters
  /\ hasUserFilters
  /\ userFilters.list # tableFilters.list
  /\ appliedFilters.filters = tableFilters.list

\* C6: an ADMIN overrides the table filters with their own: when the saved filters
\* of an ADMIN are a non-empty list or null, the filters applied are the user's
\* (null applied as the empty list), even when the table has filters; when they are
\* an empty list or absent, the table filters are applied if there are any.
C6_AdminOverridesTableFilters ==
  (hasTableActions /\ IsAdmin) =>
    /\ appliedFilters.called
    /\ hasUserFilters => appliedFilters.filters = userFilters.list
    /\ userFilters.kind = "null" => appliedFilters.filters = <<>>
    /\ (~hasUserFilters /\ userFilters.kind # "null" /\ hasTableFilters)
         => appliedFilters.filters = tableFilters.list

\* an ADMIN who cleared their filter with the override box checked: no filter is
\* applied although the table has filters
C6_Witness ==
  /\ hasTableActions
  /\ IsAdmin
  /\ hasTableFilters
  /\ userFilters.kind = "null"
  /\ overrideTableFilters
  /\ appliedFilters.filters = <<>>

====
